---- MODULE Spec2Model ----
(***************************************************************************)
(* Editorial + Shopping API (src/main.py): the link store, the click-      *)
(* tracked redirector GET /r/{slug}, the get-by-key handlers and the       *)
(* analytics summary, as a state machine over the document store.          *)
(*                                                                         *)
(* Every request is a process p \in Reqs.  A handler that touches the      *)
(* store once is one action; create_link (find_one, then insert) and       *)
(* redirect_link (lookup, click write, response) are split at their store  *)
(* calls, because FastAPI runs sync handlers on a thread pool and nothing  *)
(* in the code serialises them.                                            *)
(*                                                                         *)
(* Strings are modelled structurally: a URL is [base, query, fragment]     *)
(* with query a sequence of <<name, value>> fields (name=value joined by   *)
(* '&'); the empty string is the URL with all three parts empty.           *)
(***************************************************************************)
EXTENDS Integers, Sequences, FiniteSets, TLC

VARIABLES db, docs, req

vars == <<db, docs, req>>

\* Number of requests served in one behaviour.
MaxReq == 2

Reqs == 1..MaxReq

\* Python's None for an Optional[str] field or a missing header.
None == "<None>"

\* Python truthiness of an Optional[str]: neither None nor "".
Truthy(v) == v # None /\ v # ""

Slugs == {"a", "b"}

UtmKeys == <<"utm_source", "utm_medium", "utm_campaign">>

----------------------------------------------------------------------------
\* URLs and query strings

Url(base, query, fragment) == [base |-> base, query |-> query, fragment |-> fragment]

EmptyStr == Url("", <<>>, "")

\* `not target` for a str target (LinkIn.target is a required str).
IsEmpty(target) == target = EmptyStr

\* urllib.parse.parse_qsl with keep_blank_values=False: a field whose value
\* is blank ("k=" or a bare "k") is skipped.
parse_qsl(query) == SelectSeq(query, LAMBDA f : f[2] # "")

HasKey(q, k) == \E i \in 1..Len(q) : q[i][1] = k

\* dict insertion: append to the key's list, or add the key at the end.
DictAdd(q, k, v) ==
    IF HasKey(q, k)
    THEN [i \in 1..Len(q) |-> IF q[i][1] = k THEN <<k, Append(q[i][2], v)>> ELSE q[i]]
    ELSE Append(q, <<k, <<v>>>>)

RECURSIVE parse_qs_acc(_, _)
parse_qs_acc(pairs, q) ==
    IF pairs = <<>> THEN q
    ELSE parse_qs_acc(Tail(pairs), DictAdd(q, Head(pairs)[1], Head(pairs)[2]))

\* urllib.parse.parse_qs: name -> list of values, in first-seen order,
\* as a sequence of <<name, values>>.
parse_qs(query) == parse_qs_acc(parse_qsl(query), <<>>)

\* main.py 339-341: for key in [...]: if key not in q and link.get(key): q[key] = [link.get(key)]
RECURSIVE add_defaults(_, _, _)
add_defaults(q, link, keys) ==
    IF keys = <<>> THEN q
    ELSE LET key == Head(keys)
             q1  == IF ~HasKey(q, key) /\ Truthy(link[key])
                    THEN Append(q, <<key, <<link[key]>>>>)
                    ELSE q
         IN add_defaults(q1, link, Tail(keys))

\* main.py 342: urlencode({k: v[0] ...}): one field per key, its first value.
urlencode(q) == [i \in 1..Len(q) |-> <<q[i][1], q[i][2][1]>>]

\* main.py 335-343: the resolved URL of a link whose target is non-empty.
new_url(link) ==
    LET parsed == link.target
        q      == add_defaults(parse_qs(parsed.query), link, UtmKeys)
    IN Url(parsed.base, urlencode(q), parsed.fragment)

----------------------------------------------------------------------------
\* Documents and requests

LinkDoc(slug, target, us, um, uc) ==
    [slug |-> slug, target |-> target, utm_source |-> us, utm_medium |-> um,
     utm_campaign |-> uc, source |-> None]

NoDoc == LinkDoc(None, EmptyStr, None, None, None)

Headers(referer, ua, ip) == [referer |-> referer, user_agent |-> ua, ip |-> ip]

NoHeaders == Headers(None, None, None)

ClickDoc(slug, h) ==
    [link_slug |-> slug, referrer |-> h.referer, user_agent |-> h.user_agent, ip |-> h.ip]

NoClick == ClickDoc(None, NoHeaders)

Collections == {"product", "article", "collection", "link", "click", "subscriber"}

\* The summary's six counts, from a count per collection.
Counts(f) ==
    [products |-> f["product"], articles |-> f["article"], collections |-> f["collection"],
     links |-> f["link"], clicks |-> f["click"], subscribers |-> f["subscriber"]]

Zero == [c \in Collections |-> 0]

\* A request: its handler (op), where it stands (pc), its inputs (key, body,
\* headers), the handler's locals (link), its response (status, location,
\* counts) and what it did to the store (raised, matched, inserted,
\* attempts, click_data, click_raised).
IdleReq ==
    [op |-> "idle", pc |-> "idle", key |-> None, body |-> NoDoc, headers |-> NoHeaders,
     link |-> NoDoc, status |-> 0, location |-> EmptyStr, counts |-> Counts(Zero),
     raised |-> FALSE, matched |-> FALSE, dup |-> FALSE, inserted |-> FALSE,
     attempts |-> 0, click_data |-> NoClick, click_raised |-> FALSE]

\* Requests arrive in slot order.
Arrives(p) == req[p].pc = "idle" /\ (IF p = 1 THEN TRUE ELSE req[p - 1].pc # "idle")

Done(p) == req[p].pc = "done"

----------------------------------------------------------------------------
\* Persistence adapter

\* A store call raises when the handle is uninitialized or the store is out.
Raises(outage) == db = "none" \/ outage

\* create_document(collection, document): insert at the end.
create_document(col, doc) == [docs EXCEPT ![col] = Append(@, doc)]

\* Documents of `col` whose slug is `slug`, in store order.
Matching(col, slug) == SelectSeq(docs[col], LAMBDA d : d.slug = slug)

\* get_documents(collection, {"slug": slug}, limit)
get_documents(col, slug, limit) ==
    LET m == Matching(col, slug)
    IN IF Len(m) <= limit THEN m ELSE SubSeq(m, 1, limit)

\* db[col].find_one({"slug": slug}) is not None
find_one_exists(col, slug) == Matching(col, slug) # <<>>

----------------------------------------------------------------------------
\* Exceptions and the handlers' except clauses

HTTPException(status_code) == [kind |-> "HTTPException", status_code |-> status_code]

\* Any exception that is not an HTTPException (a store error, a TypeError on
\* db[...] when db is None, bson's InvalidId).
Error == [kind |-> "Exception", status_code |-> 0]

NoExc == [kind |-> "none", status_code |-> 0]

\* `except Exception as e: raise HTTPException(status_code=500, ...)` as the
\* only clause: HTTPException is an Exception, so it is caught as well.
except_Exception(exc) == 500

\* create_link without its `except HTTPException: raise` clause.
create_link_except_generic(exc) == 500

\* create_link: `except HTTPException: raise` before `except Exception`.
create_link_except(exc) == IF exc.kind = "HTTPException" THEN exc.status_code ELSE 500

\* redirect_link wrapped in the blanket `except Exception: 500` of the other handlers.
unhandled_wrapped(exc) == 500

\* No try block (redirect_link's lookup and target check): the framework
\* answers an HTTPException with its status and anything else with 500.
unhandled(exc) == IF exc.kind = "HTTPException" THEN exc.status_code ELSE 500

\* The body of a get-by-key handler: the store call, then the 404 check.
get_body(raised, found) ==
    IF raised THEN Error ELSE IF ~found THEN HTTPException(404) ELSE NoExc

Finish(p, op, key, raised, found, status) ==
    req' = [req EXCEPT ![p] = [@ EXCEPT !.op = op, !.pc = "done", !.key = key,
                                        !.raised = raised, !.matched = found,
                                        !.status = status]]

----------------------------------------------------------------------------
\* Inputs

PlainUrl == Url("https://x.com/p", <<>>, "")

TaggedUrl == Url("https://x.com/p", <<<<"utm_source", "existing">>>>, "top")

LinkBodies ==
    {LinkDoc(s, t, us, None, None) :
        s \in Slugs, t \in {EmptyStr, PlainUrl, TaggedUrl}, us \in {None, "blog"}}

HeaderSet ==
    {Headers(None, "curl", None), Headers("https://ref", "mozilla", "10.0.0.1")}

\* ObjectId strings: the n-th inserted product gets ToString(n); "bad" is a
\* string bson.ObjectId rejects.
ProductIds == {ToString(n) : n \in 1..MaxReq} \cup {"bad"}

----------------------------------------------------------------------------
\* Create handlers that are one insert (products, articles, collections,
\* subscribers): try: create_document(...) except Exception: 500.

create_simple(p, op, col, doc) ==
    /\ Arrives(p)
    /\ \E outage \in BOOLEAN :
        IF Raises(outage)
        THEN /\ Finish(p, op, None, TRUE, FALSE, except_Exception(Error))
             /\ UNCHANGED docs
        ELSE /\ Finish(p, op, None, FALSE, FALSE, 200)
             /\ docs' = create_document(col, doc)
    /\ UNCHANGED db

create_product(p) ==
    create_simple(p, "create_product", "product", [id |-> ToString(Len(docs["product"]) + 1)])

create_article(p, slug) == create_simple(p, "create_article", "article", [slug |-> slug])

create_collection(p, slug) == create_simple(p, "create_collection", "collection", [slug |-> slug])

subscribe(p, email) == create_simple(p, "subscribe", "subscriber", [email |-> email])

----------------------------------------------------------------------------
\* Get-by-key handlers

get_product(p, product_id) ==
    /\ Arrives(p)
    /\ \E outage \in BOOLEAN :
        LET found  == \E i \in 1..Len(docs["product"]) : docs["product"][i].id = product_id
            raised == Raises(outage) \/ product_id = "bad"
        IN Finish(p, "get_product", product_id, raised, found,
                  IF get_body(raised, found) = NoExc THEN 200
                  ELSE except_Exception(get_body(raised, found)))
    /\ UNCHANGED <<db, docs>>

get_by_slug(p, op, col, slug) ==
    /\ Arrives(p)
    /\ \E outage \in BOOLEAN :
        LET found  == find_one_exists(col, slug)
            raised == Raises(outage)
        IN Finish(p, op, slug, raised, found,
                  IF get_body(raised, found) = NoExc THEN 200
                  ELSE except_Exception(get_body(raised, found)))
    /\ UNCHANGED <<db, docs>>

get_article(p, slug) == get_by_slug(p, "get_article", "article", slug)

get_link(p, slug) == get_by_slug(p, "get_link", "link", slug)

----------------------------------------------------------------------------
\* POST /api/links

\* main.py 220-222: the pre-check.
create_link_find(p, body) ==
    /\ Arrives(p)
    /\ \E outage \in BOOLEAN :
        LET existing == find_one_exists("link", body.slug)
            exc == IF Raises(outage) THEN Error
                   ELSE IF existing THEN HTTPException(400) ELSE NoExc
        IN req' = [req EXCEPT ![p] =
                    [@ EXCEPT !.op = "create_link", !.key = body.slug, !.body = body,
                              !.dup = existing, !.raised = Raises(outage),
                              !.pc = IF exc = NoExc THEN "insert" ELSE "done",
                              !.status = IF exc = NoExc THEN 0 ELSE create_link_except(exc)]]
    /\ UNCHANGED <<db, docs>>

\* main.py 223-224: the insert.
create_link_insert(p) ==
    /\ req[p].op = "create_link" /\ req[p].pc = "insert"
    /\ \E outage \in BOOLEAN :
        IF Raises(outage)
        THEN /\ req' = [req EXCEPT ![p] = [@ EXCEPT !.pc = "done", !.raised = TRUE,
                                                    !.status = create_link_except(Error)]]
             /\ UNCHANGED docs
        ELSE /\ req' = [req EXCEPT ![p] = [@ EXCEPT !.pc = "done", !.inserted = TRUE,
                                                    !.status = 200]]
             /\ docs' = create_document("link", req[p].body)
    /\ UNCHANGED db

----------------------------------------------------------------------------
\* GET /api/analytics/summary

\* analytics_summary whose count() lacks the `if db is not None` guard.
analytics_summary_unguarded(p) ==
    /\ Arrives(p)
    /\ \E outage \in BOOLEAN :
        req' = [req EXCEPT ![p] =
                 [@ EXCEPT !.op = "analytics_summary", !.pc = "done", !.raised = Raises(outage),
                           !.status = IF Raises(outage) THEN except_Exception(Error) ELSE 200,
                           !.counts = Counts(Zero)]]
    /\ UNCHANGED <<db, docs>>

\* main.py 298-299
count(col) == IF db # "none" THEN Len(docs[col]) ELSE 0

analytics_summary(p) ==
    /\ Arrives(p)
    /\ \E outage \in BOOLEAN :
        \* count_documents raises only when it is called, i.e. when db is not None
        LET raised == db # "none" /\ outage
        IN req' = [req EXCEPT ![p] =
                    [@ EXCEPT !.op = "analytics_summary", !.pc = "done", !.raised = raised,
                              !.status = IF raised THEN except_Exception(Error) ELSE 200,
                              !.counts = IF raised THEN Counts(Zero)
                                         ELSE Counts([c \in Collections |-> count(c)])]]
    /\ UNCHANGED <<db, docs>>

----------------------------------------------------------------------------
\* GET /r/{slug}

\* main.py 314-317: the lookup, outside any try.
redirect_lookup(p, slug, headers) ==
    /\ Arrives(p)
    /\ \E outage \in BOOLEAN :
        LET doc_list == get_documents("link", slug, 1)
            exc == IF Raises(outage) THEN Error
                   ELSE IF doc_list = <<>> THEN HTTPException(404) ELSE NoExc
        IN req' = [req EXCEPT ![p] =
                    [@ EXCEPT !.op = "redirect_link", !.key = slug, !.headers = headers,
                              !.raised = Raises(outage),
                              !.matched = find_one_exists("link", slug),
                              !.link = IF exc = NoExc THEN doc_list[1] ELSE NoDoc,
                              !.pc = IF exc = NoExc THEN "click" ELSE "done",
                              !.status = IF exc = NoExc THEN 0 ELSE unhandled(exc)]]
    /\ UNCHANGED <<db, docs>>

\* The click write without its try/except: a store error ends the request.
redirect_click_propagates(p) ==
    /\ req[p].op = "redirect_link" /\ req[p].pc = "click"
    /\ \E outage \in BOOLEAN :
        LET click_data == ClickDoc(req[p].key, req[p].headers)
        IN /\ req' = [req EXCEPT ![p] =
                       [@ EXCEPT !.pc = IF Raises(outage) THEN "done" ELSE "respond",
                                 !.status = IF Raises(outage) THEN unhandled(Error) ELSE 0,
                                 !.attempts = @ + 1,
                                 !.click_data = click_data,
                                 !.click_raised = Raises(outage)]]
           /\ docs' = IF Raises(outage) THEN docs ELSE create_document("click", click_data)
    /\ UNCHANGED db

\* The redirect answered without the click write.
redirect_click_dropped(p) ==
    /\ req[p].op = "redirect_link" /\ req[p].pc = "click"
    /\ req' = [req EXCEPT ![p] = [@ EXCEPT !.pc = "respond"]]
    /\ UNCHANGED <<db, docs>>

\* main.py 318-329: record the click; `except Exception: pass`.
redirect_click(p) ==
    /\ req[p].op = "redirect_link" /\ req[p].pc = "click"
    /\ \E outage \in BOOLEAN :
        LET click_data == ClickDoc(req[p].key, req[p].headers)
        IN /\ req' = [req EXCEPT ![p] =
                       [@ EXCEPT !.pc = "respond", !.attempts = @ + 1,
                                 !.click_data = click_data,
                                 !.click_raised = Raises(outage)]]
           /\ docs' = IF Raises(outage) THEN docs ELSE create_document("click", click_data)
    /\ UNCHANGED db

\* main.py 331-345: the target check, the merge and the redirect.
redirect_respond(p) ==
    /\ req[p].op = "redirect_link" /\ req[p].pc = "respond"
    /\ LET target == req[p].link.target
       IN req' = [req EXCEPT ![p] =
                   [@ EXCEPT !.pc = "done",
                             !.status = IF IsEmpty(target) THEN unhandled(HTTPException(400))
                                        ELSE 307,
                             !.location = IF IsEmpty(target) THEN EmptyStr
                                          ELSE new_url(req[p].link)]]
    /\ UNCHANGED <<db, docs>>

----------------------------------------------------------------------------
Init ==
    /\ db \in {"up", "none"}
    /\ docs = [c \in Collections |-> <<>>]
    /\ req = [p \in Reqs |-> IdleReq]

Next ==
    \E p \in Reqs :
        \/ create_product(p)
        \/ \E slug \in Slugs : create_article(p, slug)
        \/ create_collection(p, "a")
        \/ subscribe(p, "x@y.z")
        \/ \E product_id \in ProductIds : get_product(p, product_id)
        \/ \E slug \in Slugs : get_article(p, slug)
        \/ \E slug \in Slugs : get_link(p, slug)
        \/ \E body \in LinkBodies : create_link_find(p, body)
        \/ create_link_insert(p)
        \/ analytics_summary(p)
        \/ \E slug \in Slugs, headers \in HeaderSet : redirect_lookup(p, slug, headers)
        \/ redirect_click(p)
        \/ redirect_respond(p)

Spec == Init /\ [][Next]_vars

----------------------------------------------------------------------------
\* The redirector alone, over one stored link drawn from a wide set of
\* targets and attribution values.

MergeFields ==
    {<<k, v>> : k \in {"utm_source", "utm_campaign", "id"}, v \in {"", "d1", "d2"}}

MergeQueries ==
    {<<>>} \cup {<<f>> : f \in MergeFields} \cup {<<f, g>> : f, g \in MergeFields}

UtmValues == {None, "", "blog"}

MergeLinks ==
    {LinkDoc("a", Url("https://x.com/p", query, "frag"), us, um, uc) :
        query \in MergeQueries, us \in UtmValues, um \in UtmValues, uc \in UtmValues}

InitMerge ==
    /\ db = "up"
    /\ \E l \in MergeLinks : docs = [c \in Collections |-> IF c = "link" THEN <<l>> ELSE <<>>]
    /\ req = [p \in Reqs |-> IdleReq]

NextMerge ==
    \E p \in Reqs :
        \/ \E headers \in HeaderSet : redirect_lookup(p, "a", headers)
        \/ redirect_click(p)
        \/ redirect_respond(p)

SpecMerge == InitMerge /\ [][NextMerge]_vars

----------------------------------------------------------------------------
\* Properties

IsRedirect(p) == req[p].op = "redirect_link"

Occurs(query, k) == \E i \in 1..Len(query) : query[i][1] = k

\* The value the query string gives k: that of its first field named k.
FirstValue(query, k) ==
    query[CHOOSE i \in 1..Len(query) :
            query[i][1] = k /\ \A j \in 1..(i - 1) : query[j][1] # k][2]

\* The URL's query has exactly one field named k, and its value is v.
Carries(url, k, v) ==
    /\ \E i \in 1..Len(url.query) : url.query[i] = <<k, v>>
    /\ Cardinality({i \in 1..Len(url.query) : url.query[i][1] = k}) = 1

\* C1: in every 307 response, each of utm_source, utm_medium, utm_campaign is
\* (a) the target's own value for it, whatever that value is, when the name
\* occurs in the target's query; (b) otherwise the Link's value when that is
\* non-empty; (c) otherwise absent.
C1_UtmMerge ==
    \A p \in Reqs :
        IsRedirect(p) /\ req[p].status = 307 =>
            \A n \in 1..Len(UtmKeys) :
                LET k == UtmKeys[n]
                    link == req[p].link
                IN IF Occurs(link.target.query, k)
                   THEN Carries(req[p].location, k, FirstValue(link.target.query, k))
                   ELSE IF Truthy(link[k])
                        THEN Carries(req[p].location, k, link[k])
                        ELSE ~Occurs(req[p].location.query, k)

\* C2: a redirect request that matched a Link with a non-empty target and
\* whose click write raised still ends with 307 to the merged URL; the
\* failure never shows as an error status.
C2_ClickFailureSwallowed ==
    \A p \in Reqs :
        IsRedirect(p) /\ req[p].click_raised /\ ~IsEmpty(req[p].link.target) =>
            /\ req[p].status \in {0, 307}
            /\ Done(p) => req[p].status = 307 /\ req[p].location = new_url(req[p].link)

C2_Witness ==
    \E p \in Reqs :
        IsRedirect(p) /\ Done(p) /\ req[p].click_raised /\ req[p].status = 307
            /\ req[p].location # EmptyStr

\* C3: no two Link documents in storage have the same slug.
C3_SlugUnique ==
    \A i, j \in 1..Len(docs["link"]) :
        docs["link"][i].slug = docs["link"][j].slug => i = j

\* C4 as stated: a POST /api/links whose slug an existing Link already has
\* fails with 400 and leaves the store unchanged.
C4_DuplicateRejected ==
    [][\A p \in Reqs :
          req[p].pc = "idle" /\ req'[p].op = "create_link"
              /\ find_one_exists("link", req'[p].key)
          => req'[p].pc = "done" /\ req'[p].status = 400 /\ docs' = docs]_vars

\* C4 amended: such a call leaves the store unchanged and fails with 400 when
\* the pre-check read succeeds, with 500 when the read itself raises.
C4_DuplicateRejectedWhenReadable ==
    [][\A p \in Reqs :
          req[p].pc = "idle" /\ req'[p].op = "create_link"
              /\ find_one_exists("link", req'[p].key)
          => /\ req'[p].pc = "done" /\ ~req'[p].inserted /\ docs' = docs
             /\ req'[p].status = IF req'[p].raised THEN 500 ELSE 400]_vars

C4_Witness ==
    \E p \in Reqs :
        req[p].op = "create_link" /\ Done(p) /\ req[p].dup /\ ~req[p].raised
            /\ req[p].status = 400

\* C5 as stated: a redirect request whose slug no Link matched ends 404, one
\* whose matched Link has an empty target ends 400, whatever the click write
\* did, and neither carries a redirect.
C5_ResolutionFailure ==
    \A p \in Reqs :
        IsRedirect(p) /\ Done(p) =>
            LET m == Matching("link", req[p].key)
            IN /\ ~req[p].matched => req[p].status = 404 /\ req[p].location = EmptyStr
               /\ req[p].matched /\ IsEmpty(m[1].target) =>
                      req[p].status = 400 /\ req[p].location = EmptyStr

\* C5 amended: the same, provided the lookup itself did not raise; a lookup
\* that raises ends 500, also without a redirect.
C5_ResolutionFailureWhenReadable ==
    \A p \in Reqs :
        IsRedirect(p) /\ Done(p) =>
            LET m == Matching("link", req[p].key)
            IN /\ ~req[p].raised /\ ~req[p].matched =>
                      req[p].status = 404 /\ req[p].location = EmptyStr
               /\ ~req[p].raised /\ req[p].matched /\ IsEmpty(m[1].target) =>
                      req[p].status = 400 /\ req[p].location = EmptyStr
               /\ req[p].raised => req[p].status = 500 /\ req[p].location = EmptyStr

\* A matched Link with an empty target, the click write failed, the answer is 400.
C5_Witness ==
    \E p \in Reqs :
        IsRedirect(p) /\ Done(p) /\ req[p].matched /\ ~req[p].raised
            /\ IsEmpty(req[p].link.target) /\ req[p].click_raised /\ req[p].status = 400

\* C6: a 307 response is preceded, in its own request, by exactly one
\* attempted Click write carrying the requested slug and the request's
\* Referer, User-Agent and caller IP.
C6_ClickBeforeRedirect ==
    \A p \in Reqs :
        IsRedirect(p) /\ req[p].status = 307 =>
            /\ req[p].attempts = 1
            /\ req[p].click_data = ClickDoc(req[p].key, req[p].headers)
            /\ req[p].click_data.link_slug = req[p].link.slug

C6_Witness ==
    \E p \in Reqs :
        IsRedirect(p) /\ req[p].status = 307 /\ req[p].attempts = 1
            /\ req[p].headers.referer = "https://ref"
            /\ \E i \in 1..Len(docs["click"]) : docs["click"][i] = req[p].click_data

\* C7: a get-by-key request that reached the store and matched no document
\* ends 404.
C7_MissingIsNotFound ==
    \A p \in Reqs :
        req[p].op \in {"get_product", "get_article", "get_link"} /\ Done(p)
            /\ ~req[p].raised /\ ~req[p].matched
        => req[p].status = 404

\* C8: no redirect request ends 400 ("Link target missing"); every stored
\* Link was inserted by POST /api/links.
C8_AlwaysResolves ==
    \A p \in Reqs : IsRedirect(p) /\ Done(p) => req[p].status # 400

\* C9 as stated: with the handle uninitialized or a count raising, the
\* summary is a success response with six zero counts.
C9_SummaryDegrades ==
    \A p \in Reqs :
        req[p].op = "analytics_summary" /\ Done(p) /\ (db = "none" \/ req[p].raised) =>
            req[p].status = 200 /\ req[p].counts = Counts(Zero)

\* C9 amended: with the handle uninitialized the summary is a success
\* response with six zero counts; with the handle initialized and a count
\* raising it is a 500.
C9_SummaryDegradesWhenUninitialized ==
    \A p \in Reqs :
        req[p].op = "analytics_summary" /\ Done(p) =>
            /\ db = "none" => req[p].status = 200 /\ req[p].counts = Counts(Zero)
            /\ req[p].raised => db = "up" /\ req[p].status = 500

C9_Witness ==
    \E p \in Reqs :
        req[p].op = "analytics_summary" /\ Done(p) /\ db = "none" /\ req[p].status = 200

\* C10: the Click documents never outnumber the redirect requests that ended
\* 307 or are still being served.
C10_ClicksOnlyForRedirects ==
    Len(docs["click"]) <=
        Cardinality({p \in Reqs : IsRedirect(p) /\ (req[p].status = 307 \/ ~Done(p))})
====
